---- MODULE Spec2Model ----
(***************************************************************************)
(* Model of the streaming chat client in src/templates/app.js:             *)
(* the History Store (localStorage), the rendered conversation (DOM),      *)
(* and the stream protocol consumer sendAndStream with its event handlers. *)
(*                                                                         *)
(* JavaScript is single-threaded: every action below is one handler run or *)
(* one resumption of sendAndStream between two awaits.                     *)
(*                                                                         *)
(* Text is modelled as a sequence of symbols.  Stream text symbols:        *)
(*   "NL"   a newline character            "SP"  a space                   *)
(*   "DATA" the five characters data:      "X"   text that is no JSON      *)
(*   "META" "CA" "CB" "DONE" "ERR" "NULL"  one JSON value each             *)
(* Message content is a sequence of text fragments ("a", "b", ...).        *)
(***************************************************************************)
EXTENDS Integers, Sequences, FiniteSets, TLC

\* ------------------------------------------------------------------ bounds
MaxSessions == 2
MaxClears == 1
MaxLostSaves == 1
MaxChunks == 3

\* ------------------------------------------------------------ sequence helpers
Last(s) == s[Len(s)]

RECURSIVE Flatten(_)
Flatten(ss) == IF ss = <<>> THEN <<>> ELSE Head(ss) \o Flatten(Tail(ss))

\* ------------------------------------------------------------ the wire format
\* What the server means to send: a stream is a sequence of events, an event a
\* sequence of lines, a line one of these kinds.
LineKinds == {"META", "CA", "CB", "DONE", "ERR", "BAD", "NULL", "CMT"}

\* One line of an event as text: "data: <json>" (spec.md section 6), a payload
\* that is no JSON ("data:not-json"), or a line without the data: prefix.
LineWire(l) ==
  CASE l = "CMT"  -> <<"X">>
    [] l = "BAD"  -> <<"DATA", "X">>
    [] l = "META" -> <<"DATA", "SP", "META">>
    [] OTHER      -> <<"DATA", l>>

RECURSIVE JoinLines(_)
JoinLines(ls) ==
  IF ls = <<>> THEN <<>>
  ELSE IF Len(ls) = 1 THEN LineWire(ls[1])
  ELSE LineWire(ls[1]) \o <<"NL">> \o JoinLines(Tail(ls))

\* An event is terminated by a blank line.
EventWire(ev) == JoinLines(ev) \o <<"NL", "NL">>

RECURSIVE StreamWire(_)
StreamWire(evs) == IF evs = <<>> THEN <<>> ELSE EventWire(Head(evs)) \o StreamWire(Tail(evs))

\* ------------------------------------------------------------ JSON payloads
JsonAtoms == {"META", "CA", "CB", "DONE", "ERR", "NULL"}
WeatherOfMeta == "rainy"
ChunkText(p) == IF p = "CA" THEN <<"a">> ELSE IF p = "CB" THEN <<"b">> ELSE <<>>

\* JSON.parse(payloadText): succeeds on exactly one JSON value (the text is
\* already trimmed); anything else throws.
JsonParses(payloadText) == Len(payloadText) = 1 /\ payloadText[1] \in JsonAtoms

\* ------------------------------------------------------------ string functions
\* The whitespace that trim removes: newline, space, carriage return.
WS == {"NL", "SP", "CR"}

\* String.prototype.trim
Trim(s) ==
  LET keep == {i \in 1..Len(s) : s[i] \notin WS}
  IN IF keep = {} THEN <<>>
     ELSE LET lo == CHOOSE i \in keep : \A j \in keep : i <= j
              hi == CHOOSE i \in keep : \A j \in keep : i >= j
          IN SubSeq(s, lo, hi)

\* buffer.indexOf('\n\n'): the 1-based position of the first pair, 0 when absent
\* (JavaScript: the 0-based position, -1 when absent).
IndexOfBlankLine(buf) ==
  LET hits == {i \in 1..(Len(buf) - 1) : buf[i] = "NL" /\ buf[i + 1] = "NL"}
  IN IF hits = {} THEN 0 ELSE CHOOSE i \in hits : \A j \in hits : i <= j

\* rawEvent.split('\n')
RECURSIVE SplitLines(_)
SplitLines(s) ==
  LET nls == {i \in 1..Len(s) : s[i] = "NL"}
  IN IF nls = {} THEN <<s>>
     ELSE LET i == CHOOSE k \in nls : \A j \in nls : k <= j
          IN <<SubSeq(s, 1, i - 1)>> \o SplitLines(SubSeq(s, i + 1, Len(s)))

\* .map(s => s.trim()).filter(Boolean)
TrimmedLines(rawEvent) ==
  SelectSeq([i \in DOMAIN SplitLines(rawEvent) |-> Trim(SplitLines(rawEvent)[i])],
            LAMBDA l : l # <<>>)

\* ------------------------------------------------------------ History Store
\* The value kept under STORAGE_KEY: no entry, text that JSON.parse rejects, JSON
\* that is no array, or the JSON text of an array of messages.  JSON.stringify
\* followed by JSON.parse returns an array of {role, content, weather} records
\* with string content and null-or-object weather unchanged, so the record keeps
\* the array itself.
MissingKey == [kind |-> "missing", arr |-> <<>>]
EmptyText == [kind |-> "empty", arr |-> <<>>]
CorruptText == [kind |-> "corrupt", arr |-> <<>>]
NonArrayJson == [kind |-> "nonarray", arr |-> <<>>]
StoredArray(messages) == [kind |-> "array", arr |-> messages]

\* Lines 93-101: what the body of loadHistory does.  raised: an exception leaves
\* the function.  getItem returns null for a missing key and '' for empty text
\* (line 95), JSON.parse throws on corrupt text (caught, lines 98-100), and
\* Array.isArray rejects every other JSON value (line 97).
loadHistoryResult_noCatch(storage) ==
  CASE storage.kind \in {"missing", "empty"} -> [raised |-> FALSE, value |-> <<>>]
    [] storage.kind = "corrupt" -> [raised |-> TRUE, value |-> <<>>]
    [] storage.kind = "nonarray" -> [raised |-> FALSE, value |-> <<>>]
    [] storage.kind = "array" -> [raised |-> FALSE, value |-> storage.arr]

loadHistoryResult(storage) ==
  CASE storage.kind \in {"missing", "empty"} -> [raised |-> FALSE, value |-> <<>>]
    [] storage.kind = "corrupt" -> [raised |-> FALSE, value |-> <<>>]
    [] storage.kind = "nonarray" -> [raised |-> FALSE, value |-> <<>>]
    [] storage.kind = "array" -> [raised |-> FALSE, value |-> storage.arr]

loadHistory(storage) == loadHistoryResult(storage).value

\* full: localStorage.setItem throws (quota exceeded, storage unavailable); the
\* exception is caught and the stored value stays as it was.  Whether the
\* storage is full is an input of every handler run.
saveHistory_clearsOnFailure(storage, messages, full) ==
  IF full THEN MissingKey ELSE StoredArray(messages)

saveHistory(storage, messages, full) == IF full THEN storage ELSE StoredArray(messages)

\* Lines 108-111: h.push(msg); saveHistory(h)
appendToHistory_prepends(storage, msg, full) ==
  saveHistory(storage, <<msg>> \o loadHistory(storage), full)

appendToHistory(storage, msg, full) ==
  saveHistory(storage, Append(loadHistory(storage), msg), full)

clearHistory(storage) == MissingKey

\* ------------------------------------------------------------ rendered conversation
\* An element of conversationEl.  text is the source of what the bubble shows;
\* historyIndex is dataset.historyIndex: <<>> when unset, <<k>> for the 0-based
\* index k.  owner, made and applied record who created the element, by which
\* code path, and the chunk texts applied to it; the code never reads them.
Element(msg, owner, made) ==
  [role |-> IF msg.role = "user" THEN "user" ELSE "assistant",
   text |-> msg.content, weather |-> msg.weather,
   streaming |-> FALSE, streamFinal |-> FALSE, historyIndex |-> <<>>,
   owner |-> owner, made |-> made, applied |-> <<>>]

renderMessage(dom, msg, owner, made) == Append(dom, Element(msg, owner, made))

clearConversationDOM(dom) == <<>>

renderHistory(storage) ==
  LET h == loadHistory(storage) IN [i \in DOMAIN h |-> Element(h[i], 0, "history")]

\* h[idx] is defined: idx = Number(dataset.historyIndex) is a number (not NaN)
\* that addresses an element of h.
HasSlot(h, historyIndex) ==
  historyIndex # <<>> /\ (historyIndex[1] + 1) \in 1..Len(h)

\* A context c carries what a handler reads and writes: storage, dom, status,
\* theme, and the bookkeeping lost (the saves lost so far), log (the payloads the
\* running session dispatched) and errs (error messages it appended).
Lost(failed) == IF failed THEN 1 ELSE 0

pushUserMessage(c, text, full, sid) ==
  LET msg == [role |-> "user", content |-> text, weather |-> "null"]
  IN [c EXCEPT !.storage = appendToHistory(c.storage, msg, full),
               !.dom = renderMessage(c.dom, msg, sid, "user"),
               !.lost = c.lost + Lost(full)]

appendAssistantMessage(c, text, full, sid) ==
  LET msg == [role |-> "assistant", content |-> text, weather |-> "null"]
  IN [c EXCEPT !.storage = appendToHistory(c.storage, msg, full),
               !.dom = renderMessage(c.dom, msg, sid, "error"),
               !.lost = c.lost + Lost(full),
               !.errs = c.errs + 1]

\* Line 198: there is no last element, or it is no assistant element, or it is
\* finalized.
NeedsNewMessage_always(dom) == TRUE

NeedsNewMessage(dom) ==
  dom = <<>> \/ Last(dom).role # "assistant" \/ Last(dom).streamFinal

\* Line 211: (h[idx].content || '') + appended
AppendedContent_replace(content, appended) == appended

AppendedContent(content, appended) == content \o appended

\* Lines 196-226.
pushAssistantMessagePartial_appendsWhenAbsent(c, textPart, weather, full, sid) ==
  IF NeedsNewMessage(c.dom)
  THEN
    LET msgObj == [role |-> "assistant", content |-> textPart, weather |-> weather]
        st == appendToHistory(c.storage, msgObj, full)
        el == [Element(msgObj, sid, "stream") EXCEPT
                 !.streaming = TRUE,
                 !.historyIndex = <<Len(loadHistory(st)) - 1>>,
                 !.applied = textPart]
    IN [c EXCEPT !.storage = st, !.dom = Append(c.dom, el),
                 !.lost = c.lost + Lost(full)]
  ELSE
    LET last == Last(c.dom)
        h == loadHistory(c.storage)
        slot == HasSlot(h, last.historyIndex)
        k == last.historyIndex[1] + 1
        h2 == IF slot THEN [h EXCEPT ![k].content = AppendedContent(h[k].content, textPart)]
              ELSE Append(h, [role |-> "assistant", content |-> textPart, weather |-> weather])
        fullRaw == IF slot THEN h2[k].content ELSE last.text
    IN [c EXCEPT !.storage = saveHistory(c.storage, h2, full),
                 !.dom[Len(c.dom)].text = fullRaw,
                 !.dom[Len(c.dom)].applied = last.applied \o textPart,
                 !.lost = c.lost + Lost(full)]

pushAssistantMessagePartial(c, textPart, weather, full, sid) ==
  IF NeedsNewMessage(c.dom)
  THEN
    LET msgObj == [role |-> "assistant", content |-> textPart, weather |-> weather]
        st == appendToHistory(c.storage, msgObj, full)
        el == [Element(msgObj, sid, "stream") EXCEPT
                 !.streaming = TRUE,
                 !.historyIndex = <<Len(loadHistory(st)) - 1>>,
                 !.applied = textPart]
    IN [c EXCEPT !.storage = st, !.dom = Append(c.dom, el),
                 !.lost = c.lost + Lost(full)]
  ELSE
    LET last == Last(c.dom)
        h == loadHistory(c.storage)
        slot == HasSlot(h, last.historyIndex)
        k == last.historyIndex[1] + 1
        h2 == IF slot THEN [h EXCEPT ![k].content = AppendedContent(h[k].content, textPart)] ELSE h
        fullRaw == IF slot THEN h2[k].content ELSE last.text
    IN [c EXCEPT !.storage = IF slot THEN saveHistory(c.storage, h2, full) ELSE c.storage,
                 !.dom[Len(c.dom)].text = fullRaw,
                 !.dom[Len(c.dom)].applied = last.applied \o textPart,
                 !.lost = c.lost + Lost(slot /\ full)]

\* Lines 227-231: the finalized mark goes on the last element when that is an
\* assistant element.
finalizeAssistantStream_toggle(dom) ==
  IF dom = <<>> \/ Last(dom).role # "assistant" THEN dom
  ELSE [dom EXCEPT ![Len(dom)].streamFinal = ~dom[Len(dom)].streamFinal]

finalizeAssistantStream(dom) ==
  IF dom = <<>> \/ Last(dom).role # "assistant" THEN dom
  ELSE [dom EXCEPT ![Len(dom)].streamFinal = TRUE]

\* ------------------------------------------------------------ stream protocol consumer
\* applyBackgroundForCondition: the theme class of the condition.
applyBackgroundForCondition(cond) == IF cond = "null" THEN "other" ELSE cond

UserText == <<"q">>
ServerErrorText == <<"Server error. See console.">>
StreamFailedText == <<"Stream failed">>
ErrorEventText == <<"Error: ERR">>

\* Lines 281-303: what one parsed payload does.  ctl says how the loop goes on:
\* "next" (continue), "done" or "error" (return), "throw" (an exception that the
\* catch of sendAndStream handles: reading .error of null is a TypeError).
\* Lines 281-288: a payload with an error indicator.
ErrorPayload_noReturn(c, full, sid) ==
  [c |-> [appendAssistantMessage(c, ErrorEventText, full, sid) EXCEPT
            !.status = "Error", !.theme = applyBackgroundForCondition("other")],
   ctl |-> "next"]

ErrorPayload(c, full, sid) ==
  [c |-> [appendAssistantMessage(c, ErrorEventText, full, sid) EXCEPT
            !.status = "Error", !.theme = applyBackgroundForCondition("other")],
   ctl |-> "error"]

DispatchPayload(c, p, full, sid) ==
  LET cl == [c EXCEPT !.log = Append(c.log, p)]
  IN CASE p = "NULL" -> [c |-> c, ctl |-> "throw"]
       [] p = "ERR" -> ErrorPayload(cl, full, sid)
       [] p = "META" ->
            [c |-> pushAssistantMessagePartial(
                     [cl EXCEPT !.theme = applyBackgroundForCondition(WeatherOfMeta)],
                     <<>>, WeatherOfMeta, full, sid),
             ctl |-> "next"]
       [] p \in {"CA", "CB"} ->
            [c |-> pushAssistantMessagePartial(cl, ChunkText(p), "null", full, sid),
             ctl |-> "next"]
       [] p = "DONE" ->
            [c |-> [cl EXCEPT !.dom = finalizeAssistantStream(cl.dom), !.status = "Done"],
             ctl |-> "done"]

\* Line 280: JSON.parse threw; the catch logs the payload and continues.
BadPayload_aborts(c) == [c |-> c, ctl |-> "throw"]

BadPayload(c) == [c |-> c, ctl |-> "next"]

\* Lines 276-280: a line that does not start with data:, an empty payload and a
\* payload that JSON.parse rejects are skipped.
ProcessLine(c, line, full, sid) ==
  IF Head(line) # "DATA" THEN [c |-> c, ctl |-> "next"]
  ELSE LET payloadText == Trim(Tail(line))
       IN IF payloadText = <<>> THEN [c |-> c, ctl |-> "next"]
          ELSE IF ~JsonParses(payloadText) THEN BadPayload(c)
          ELSE DispatchPayload(c, payloadText[1], full, sid)

\* Line 275: for (const line of lines)
RECURSIVE ProcessLines(_, _, _, _)
ProcessLines(c, lines, full, sid) ==
  IF lines = <<>> THEN [c |-> c, ctl |-> "next"]
  ELSE LET r == ProcessLine(c, Head(lines), full, sid)
       IN IF r.ctl = "next" THEN ProcessLines(r.c, Tail(lines), full, sid) ELSE r

\* Lines 271-305: while the buffer holds a blank line, cut the event before it
\* off the buffer and process its lines.
ProcessBuffer_oneEvent(c, buffer, full, sid) ==
  LET idx == IndexOfBlankLine(buffer)
  IN IF idx = 0 THEN [c |-> c, buffer |-> buffer, ctl |-> "next"]
     ELSE LET rawEvent == Trim(SubSeq(buffer, 1, idx - 1))
              rest == SubSeq(buffer, idx + 2, Len(buffer))
              r == ProcessLines(c, TrimmedLines(rawEvent), full, sid)
          IN [c |-> r.c, buffer |-> rest, ctl |-> r.ctl]

RECURSIVE ProcessBuffer(_, _, _, _)
ProcessBuffer(c, buffer, full, sid) ==
  LET idx == IndexOfBlankLine(buffer)
  IN IF idx = 0 THEN [c |-> c, buffer |-> buffer, ctl |-> "next"]
     ELSE LET rawEvent == Trim(SubSeq(buffer, 1, idx - 1))
              rest == SubSeq(buffer, idx + 2, Len(buffer))
              r == ProcessLines(c, TrimmedLines(rawEvent), full, sid)
          IN IF r.ctl = "next" THEN ProcessBuffer(r.c, rest, full, sid)
             ELSE [c |-> r.c, buffer |-> rest, ctl |-> r.ctl]

\* Line 269: buffer += decoder.decode(value, {stream:true})
AppendToBuffer_replace(buffer, value) == value

AppendToBuffer(buffer, value) == buffer \o value

\* Lines 309-313: the catch of sendAndStream.
CatchHandler(c, full, sid) ==
  [appendAssistantMessage(c, StreamFailedText, full, sid) EXCEPT
     !.status = "Error", !.theme = applyBackgroundForCondition("other")]

\* ------------------------------------------------------------ streams the server sends
\* A script is what the server sends before it closes the stream: its events,
\* and how many symbols of the last terminator are missing (cut).
Script(evs, cut) == [evs |-> evs, cut |-> cut]

ScriptWire(sc) ==
  LET w == StreamWire(sc.evs) IN SubSeq(w, 1, Len(w) - sc.cut)

MetaChunksDone == Script(<< <<"META">>, <<"CA">>, <<"CB">>, <<"DONE">> >>, 0)
ChunksOnly == Script(<< <<"CA">>, <<"CB">> >>, 0)
ChunkErrorMore == Script(<< <<"CA">>, <<"ERR", "CB">>, <<"CB">> >>, 0)

\* The streams of the runs with overlapping sessions.
Scripts == {MetaChunksDone, ChunksOnly, ChunkErrorMore}

\* The streams of the runs with one session: an optional meta event (after a
\* line without the prefix), up to MaxChunks events that each carry a chunk or
\* a malformed payload, and then nothing, done, an error
\* payload with more events behind it, or a null payload; the stream may end
\* one symbol before the last terminator is complete.
Openings == {<<>>, << <<"CMT", "META">> >>}
BodyEvents == {<<"CA">>, <<"CB">>, <<"BAD">>}
Bodies == UNION {[1..n -> BodyEvents] : n \in 0..MaxChunks}
Endings == {<<>>, << <<"DONE">> >>, << <<"ERR", "CB">>, <<"CB">> >>, << <<"NULL">> >>}
\* Streams with a meta event that is not the first event.
MetaAfterChunk == Script(<< <<"CA">>, <<"META">>, <<"CB">> >>, 0)
MetaAfterMeta == Script(<< <<"META">>, <<"META">>, <<"CA">>, <<"DONE">> >>, 0)

SoloScripts ==
  {Script(o \o b \o e, cut) : o \in Openings, b \in Bodies, e \in Endings, cut \in {0}}
  \cup {Script(o \o b, 1) : o \in Openings, b \in Bodies \ {<<>>}}
  \cup {MetaAfterChunk, MetaAfterMeta}

\* ------------------------------------------------------------ state
VARIABLES
  storage,      \* localStorage[STORAGE_KEY]
  dom,          \* the children of conversationEl
  status,       \* statusSmall.textContent
  theme,        \* the bg-* class of document.body
  sess,         \* the calls of sendAndStream, in the order they were started
  lost,         \* the saves that were lost (saveHistory caught an exception)
  clears,       \* clicks on the clear button
  sinceClear,   \* the chat was cleared and nothing was sent since
  loaded,       \* the history that the page load found in storage
  op,           \* the last History Store operation of the store runs
  md,           \* the text under normalizeMarkdown and its results
  imgs          \* the image attachments made by createPlaceImage

vars == <<storage, dom, status, theme, sess, lost, clears, sinceClear, loaded,
          op, md, imgs>>

\* What the runs of the chat leave alone.
aside == <<op, md, imgs>>

NoOp == [name |-> "none", before |-> MissingKey]
NoText == [input |-> <<>>, outs |-> <<>>, crlf |-> <<>>]

\* The conversation of an earlier page load, found in storage at start.
PriorHistory ==
  << [role |-> "user", content |-> UserText, weather |-> "null"],
     [role |-> "assistant", content |-> <<"p">>, weather |-> "null"] >>

\* Line 375 renderHistory() and line 437 applyBackgroundForCondition('other').
Init ==
  /\ storage \in {MissingKey, CorruptText, StoredArray(PriorHistory)}
  /\ dom = renderHistory(storage)
  /\ status = "Ready"
  /\ theme = applyBackgroundForCondition("other")
  /\ sess = <<>>
  /\ lost = 0
  /\ clears = 0
  /\ sinceClear = FALSE
  /\ loaded = loadHistory(storage)
  /\ op = NoOp
  /\ md = NoText
  /\ imgs = <<>>

Ctx(s) ==
  [storage |-> storage, dom |-> dom, status |-> status, theme |-> theme,
   lost |-> lost,
   log |-> IF s \in DOMAIN sess THEN sess[s].log ELSE <<>>,
   errs |-> IF s \in DOMAIN sess THEN sess[s].errs ELSE 0]

\* The handler's writes to the shared state.
Commit(c) ==
  /\ storage' = c.storage
  /\ dom' = c.dom
  /\ status' = c.status
  /\ theme' = c.theme
  /\ lost' = c.lost

Active(s) == sess[s].pc # "ended"

\* sendAndStream has returned: its locals (buffer, reader) are gone; unread
\* records whether text of the stream was left unprocessed, torn whether a read
\* ended between the two newlines of a delimiter.
Ended(se, c, term) ==
  [se EXCEPT !.pc = "ended", !.term = term, !.log = c.log, !.errs = c.errs,
             !.unread = se.wire # <<>> \/ se.buffer # <<>>,
             !.wire = <<>>, !.buffer = <<>>]

\* ------------------------------------------------------------ the fallback sendOnce
\* What /api/process answers: kind says which path of lines 324-358 is taken.
\*   "answer"        ok, a record with an answer and no error
\*   "error_answer"  ok, a record with an error and an answer
\*   "error"         ok, a record with an error and no answer
\*   "null_body"     ok, the JSON value null
\*   "not_ok"        a non-success status with a JSON body
\*   "throws"        fetch or resp.json() rejects
OnceKinds == {"answer", "error_answer", "error", "null_body", "not_ok", "throws"}
OnceResponses == [kind : OnceKinds, weather : {"null", WeatherOfMeta}]
NoResponse == [kind |-> "none", weather |-> "null"]

AnswerText == <<"answer">>
ErrorDescriptorText == <<"error message">>
RequestFailedText == <<"Request failed">>

\* Lines 338-339 and 349-350: the answer as a normal assistant message.
AppendAnswer(c, weather, full, sid) ==
  LET msg == [role |-> "assistant", content |-> AnswerText, weather |-> weather]
  IN [c EXCEPT !.storage = appendToHistory(c.storage, msg, full),
               !.dom = renderMessage(c.dom, msg, sid, "answer"),
               !.lost = c.lost + Lost(full)]

\* Lines 337-343: an error descriptor that carries an answer.
OnceErrorWithAnswer_asFailure(c, resp, full, sid) ==
  [appendAssistantMessage(c, ErrorDescriptorText, full, sid) EXCEPT
     !.theme = applyBackgroundForCondition("other"), !.status = "Error"]

OnceErrorWithAnswer(c, resp, full, sid) ==
  [AppendAnswer(c, resp.weather, full, sid) EXCEPT
     !.theme = applyBackgroundForCondition(resp.weather), !.status = "Done"]

\* Lines 354-358: the catch of sendOnce.
OnceCatch(c, full, sid) ==
  [appendAssistantMessage([c EXCEPT !.status = "Error"], RequestFailedText, full, sid)
     EXCEPT !.theme = applyBackgroundForCondition("other")]

\* Lines 327-358: sendOnce from the response on.  Reading .error of null throws
\* a TypeError inside the try.
sendOnceResponse(c, resp, full, sid) ==
  CASE resp.kind = "throws" -> OnceCatch(c, full, sid)
    [] resp.kind = "not_ok" ->
         [appendAssistantMessage(c, ServerErrorText, full, sid) EXCEPT
            !.theme = applyBackgroundForCondition("other"), !.status = "Error"]
    [] resp.kind = "null_body" -> OnceCatch(c, full, sid)
    [] resp.kind = "error_answer" -> OnceErrorWithAnswer(c, resp, full, sid)
    [] resp.kind = "error" ->
         [appendAssistantMessage(c, ErrorDescriptorText, full, sid) EXCEPT
            !.theme = applyBackgroundForCondition("other"), !.status = "Done"]
    [] resp.kind = "answer" ->
         [AppendAnswer(c, resp.weather, full, sid) EXCEPT
            !.theme = applyBackgroundForCondition(resp.weather), !.status = "Done"]

\* ------------------------------------------------------------ actions
\* Lines 362-366 and 243-250: the click handler calls sendAndStream, which runs
\* to its first await (fetch).
Send(sc, full) ==
  /\ Len(sess) < MaxSessions
  /\ full => lost < MaxLostSaves
  /\ LET sid == Len(sess) + 1
         new == [pc |-> "fetching", term |-> "none", script |-> sc,
                 wire |-> ScriptWire(sc), buffer |-> <<>>, log |-> <<>>, errs |-> 0,
                 unread |-> FALSE, resp |-> NoResponse, torn |-> FALSE,
                 alone |-> \A i \in DOMAIN sess : ~Active(i)]
     IN /\ \E c \in {[pushUserMessage(Ctx(sid), UserText, full, sid) EXCEPT
                        !.status = "Processing"]} : Commit(c)
        /\ sess' = Append([i \in DOMAIN sess |->
                             IF Active(i) THEN [sess[i] EXCEPT !.alone = FALSE]
                             ELSE sess[i]], new)
  /\ sinceClear' = FALSE
  /\ UNCHANGED <<clears, loaded, aside>>

\* Lines 317-327: sendOnce runs to its first await (fetch).
SendOnce(full) ==
  /\ Len(sess) < MaxSessions
  /\ full => lost < MaxLostSaves
  /\ LET sid == Len(sess) + 1
         new == [pc |-> "once", term |-> "none", script |-> Script(<<>>, 0),
                 wire |-> <<>>, buffer |-> <<>>, log |-> <<>>, errs |-> 0,
                 unread |-> FALSE, resp |-> NoResponse, torn |-> FALSE,
                 alone |-> \A i \in DOMAIN sess : ~Active(i)]
     IN /\ \E c \in {[pushUserMessage(Ctx(sid), UserText, full, sid) EXCEPT
                        !.status = "Processing"]} : Commit(c)
        /\ sess' = Append([i \in DOMAIN sess |->
                             IF Active(i) THEN [sess[i] EXCEPT !.alone = FALSE]
                             ELSE sess[i]], new)
  /\ sinceClear' = FALSE
  /\ UNCHANGED <<clears, loaded, aside>>

\* Lines 324-358: the response of /api/process has arrived (or the request
\* failed) and sendOnce runs to its end.
OnceResponds(s, resp, full) ==
  /\ sess[s].pc = "once"
  /\ full => lost < MaxLostSaves
  /\ \E c \in {sendOnceResponse(Ctx(s), resp, full, s)} :
       /\ Commit(c)
       /\ sess' = [sess EXCEPT ![s] = Ended([sess[s] EXCEPT !.resp = resp], c, "once")]
  /\ UNCHANGED <<clears, sinceClear, loaded, aside>>

\* Lines 250-264: fetch resolved with resp.ok; the loop awaits the first read.
FetchOk(s) ==
  /\ sess[s].pc = "fetching"
  /\ sess' = [sess EXCEPT ![s].pc = "reading"]
  /\ UNCHANGED <<storage, dom, status, theme, lost, clears, sinceClear, loaded, aside>>

\* Lines 256-260: the handling of a non-success status.
NotOkHandler_silent(c, full, sid) ==
  [c EXCEPT !.status = "Error", !.theme = applyBackgroundForCondition("other")]

NotOkHandler(c, full, sid) ==
  [appendAssistantMessage([c EXCEPT !.status = "Error"], ServerErrorText, full, sid)
     EXCEPT !.theme = applyBackgroundForCondition("other")]

\* Lines 255-262: fetch resolved with a non-success status.
FetchNotOk(s, full) ==
  /\ sess[s].pc = "fetching"
  /\ full => lost < MaxLostSaves
  /\ \E c \in {NotOkHandler(Ctx(s), full, s)} :
       /\ Commit(c)
       /\ sess' = [sess EXCEPT ![s] = Ended(sess[s], c, "http")]
  /\ UNCHANGED <<clears, sinceClear, loaded, aside>>

\* Lines 309-313: fetch or rl.read rejected (network failure, disconnect).
TransportFails(s, full) ==
  /\ sess[s].pc \in {"fetching", "reading"}
  /\ full => lost < MaxLostSaves
  /\ \E c \in {CatchHandler(Ctx(s), full, s)} :
       /\ Commit(c)
       /\ sess' = [sess EXCEPT ![s] = Ended(sess[s], c, "failed")]
  /\ UNCHANGED <<clears, sinceClear, loaded, aside>>

\* Lines 267-305: rl.read resolved with the next n symbols of the stream; the
\* buffer is processed up to the next await.
Read(s, n, full) ==
  /\ sess[s].pc = "reading"
  /\ full => lost < MaxLostSaves
  /\ n \in 1..Len(sess[s].wire)
  /\ \E r \in {ProcessBuffer(Ctx(s),
                               AppendToBuffer(sess[s].buffer, SubSeq(sess[s].wire, 1, n)),
                               full, s)} :
     \E c \in {IF r.ctl = "throw" THEN CatchHandler(r.c, full, s) ELSE r.c} :
     \E se \in {[sess[s] EXCEPT
                   !.wire = SubSeq(sess[s].wire, n + 1, Len(sess[s].wire)),
                   !.buffer = r.buffer,
                   !.torn = sess[s].torn \/ (r.ctl = "next" /\ r.buffer # <<>> /\ Last(r.buffer) = "NL"),
                   !.log = c.log, !.errs = c.errs]} :
       /\ Commit(c)
       /\ sess' = [sess EXCEPT ![s] =
                     CASE r.ctl = "next" -> se
                       [] r.ctl = "done" -> Ended(se, c, "done")
                       [] r.ctl = "error" -> Ended(se, c, "error_event")
                       [] r.ctl = "throw" -> Ended(se, c, "threw")]
  /\ UNCHANGED <<clears, sinceClear, loaded, aside>>

\* Lines 268 and 307-308: rl.read reports done; the stream has ended.
ReadEnd(s) ==
  /\ sess[s].pc = "reading"
  /\ sess[s].wire = <<>>
  /\ \E c \in {[Ctx(s) EXCEPT !.dom = finalizeAssistantStream(dom),
                                !.status = "Done"]} :
       /\ Commit(c)
       /\ sess' = [sess EXCEPT ![s] = Ended(sess[s], c, "eos")]
  /\ UNCHANGED <<clears, sinceClear, loaded, aside>>

\* Line 234: the clear button.
Clear ==
  /\ clears < MaxClears
  /\ storage' = clearHistory(storage)
  /\ dom' = clearConversationDOM(dom)
  /\ status' = "Ready"
  /\ clears' = clears + 1
  /\ sinceClear' = TRUE
  /\ UNCHANGED <<theme, sess, lost, loaded, aside>>

\* The reads that end where an event ends, or where the stream ends.
WholeEvents(w) ==
  {n \in 2..Len(w) : w[n] = "NL" /\ w[n - 1] = "NL"} \cup (IF w = <<>> THEN {} ELSE {Len(w)})

Next ==
  \/ \E sc \in Scripts, full \in BOOLEAN : Send(sc, full)
  \/ \E s \in DOMAIN sess : FetchOk(s)
  \/ \E s \in DOMAIN sess, full \in BOOLEAN : FetchNotOk(s, full)
  \/ \E s \in DOMAIN sess, full \in BOOLEAN : TransportFails(s, full)
  \/ \E s \in DOMAIN sess, full \in BOOLEAN :
       \E n \in WholeEvents(sess[s].wire) : Read(s, n, full)
  \/ \E s \in DOMAIN sess : ReadEnd(s)
  \/ Clear

Spec == Init /\ [][Next]_vars

\* One send per page load, through sendAndStream (any stream of SoloScripts,
\* any splitting of the stream into reads, a transport failure at any point) or
\* through sendOnce (any response of OnceResponses); no clear and no lost save.
NextSolo ==
  \/ \E sc \in SoloScripts : sess = <<>> /\ Send(sc, FALSE)
  \/ \E s \in DOMAIN sess : FetchOk(s)
  \/ \E s \in DOMAIN sess : FetchNotOk(s, FALSE)
  \/ \E s \in DOMAIN sess : TransportFails(s, FALSE)
  \/ \E s \in DOMAIN sess : \E n \in 1..Len(sess[s].wire) : Read(s, n, FALSE)
  \/ \E s \in DOMAIN sess : ReadEnd(s)
  \/ sess = <<>> /\ SendOnce(FALSE)
  \/ \E s \in DOMAIN sess, resp \in OnceResponses : OnceResponds(s, resp, FALSE)

SpecSolo == Init /\ [][NextSolo]_vars

\* ------------------------------------------------------------ the History Store alone
MaxStored == 2

\* The messages that a stored array may hold.
StoreContents == {<<>>, <<"a">>, <<"a", "b">>}
StoreMessages ==
  {[role |-> "user", content |-> UserText, weather |-> "null"]}
  \cup {[role |-> "assistant", content |-> t, weather |-> w] :
          t \in StoreContents, w \in {"null", WeatherOfMeta}}

\* The values that the storage key may have when a function of lines 92-114
\* is called.
StoreStates ==
  {MissingKey, EmptyText, CorruptText, NonArrayJson}
  \cup {StoredArray(a) : a \in UNION {[1..n -> StoreMessages] : n \in 0..MaxStored}}

InitStore ==
  /\ storage \in StoreStates
  /\ dom = <<>>
  /\ status = "Ready"
  /\ theme = applyBackgroundForCondition("other")
  /\ sess = <<>>
  /\ lost = 0
  /\ clears = 0
  /\ sinceClear = FALSE
  /\ loaded = <<>>
  /\ op = NoOp
  /\ md = NoText
  /\ imgs = <<>>

\* Line 375: the page load calls renderHistory, which calls loadHistory.
StoreLoad ==
  /\ loaded' = loadHistory(storage)
  /\ dom' = renderHistory(storage)
  /\ op' = [name |-> "load", before |-> storage]
  /\ UNCHANGED <<storage, status, theme, sess, lost, clears, sinceClear, md, imgs>>

\* saveHistory(loadHistory()), with the storage full or not.
StoreRoundTrip(full) ==
  /\ storage' = saveHistory(storage, loadHistory(storage), full)
  /\ op' = [name |-> "roundtrip", before |-> storage]
  /\ UNCHANGED <<dom, status, theme, sess, lost, clears, sinceClear, loaded, md, imgs>>

\* Line 234: clearHistory.
StoreClear ==
  /\ storage' = clearHistory(storage)
  /\ op' = [name |-> "clear", before |-> storage]
  /\ UNCHANGED <<dom, status, theme, sess, lost, clears, sinceClear, loaded, md, imgs>>

NextStore ==
  \/ StoreLoad
  \/ \E full \in BOOLEAN : StoreRoundTrip(full)
  \/ StoreClear

SpecStore == InitStore /\ [][NextStore]_vars

\* ------------------------------------------------------------ normalizeMarkdown
\* Text is a sequence of characters: "a" a lower-case letter, "1" a digit,
\* "SP" a space, "CR" a carriage return, "NL" a line feed.
MaxText == 5
MdAlphabet == {"a", "1", "SP", "CR", "NL"}
Texts == UNION {[1..n -> MdAlphabet] : n \in 0..MaxText}

\* The class [a-z0-9\u00C0-\u017F] of line 70.
WordChars == {"a", "1"}

\* Line 67: s.replace(/\r\n/g, "\n")
RECURSIVE ReplaceCRLF(_)
ReplaceCRLF(s) ==
  IF s = <<>> THEN <<>>
  ELSE IF Len(s) >= 2 /\ s[1] = "CR" /\ s[2] = "NL"
       THEN <<"NL">> \o ReplaceCRLF(SubSeq(s, 3, Len(s)))
       ELSE <<s[1]>> \o ReplaceCRLF(Tail(s))

\* Line 68: line.replace(/[ \t]+$/g, "")
RECURSIVE StripTrailing(_)
StripTrailing(line) ==
  IF line # <<>> /\ Last(line) = "SP"
  THEN StripTrailing(SubSeq(line, 1, Len(line) - 1))
  ELSE line

\* Line 68: .join("\n")
RECURSIVE JoinNL(_)
JoinNL(lines) ==
  IF Len(lines) = 1 THEN lines[1]
  ELSE lines[1] \o <<"NL">> \o JoinNL(Tail(lines))

\* Line 69: s.replace(/\n{3,}/g, "\n\n"), runs matched from the left.
RECURSIVE CollapseNewlines(_)
CollapseNewlines(s) ==
  IF s = <<>> THEN <<>>
  ELSE IF s[1] # "NL" THEN <<s[1]>> \o CollapseNewlines(Tail(s))
  ELSE LET others == {i \in 1..Len(s) : s[i] # "NL"}
           run == IF others = {} THEN Len(s)
                  ELSE (CHOOSE i \in others : \A j \in others : i <= j) - 1
       IN (IF run >= 3 THEN <<"NL", "NL">> ELSE SubSeq(s, 1, run))
          \o CollapseNewlines(SubSeq(s, run + 1, Len(s)))

\* Line 70: s.replace(/([a-z0-9])\n([a-z0-9])/g, "$1 $2"): the matches are
\* found from the left and do not overlap, the search goes on behind a match.
RECURSIVE JoinWrapped(_)
JoinWrapped(s) ==
  IF s = <<>> THEN <<>>
  ELSE IF Len(s) >= 3 /\ s[1] \in WordChars /\ s[2] = "NL" /\ s[3] \in WordChars
       THEN <<s[1], "SP", s[3]>> \o JoinWrapped(SubSeq(s, 4, Len(s)))
       ELSE <<s[1]>> \o JoinWrapped(Tail(s))

\* Lines 64-73.  Line 71 removes leading and trailing \s, which is what trim
\* removes.
normalizeMarkdown(s) ==
  LET s1 == ReplaceCRLF(s)
      ls == SplitLines(s1)
      s2 == JoinNL([i \in DOMAIN ls |-> StripTrailing(ls[i])])
      s3 == CollapseNewlines(s2)
      s4 == JoinWrapped(s3)
  IN Trim(s4)

InitNormalize ==
  /\ md \in {[input |-> t, outs |-> <<>>, crlf |-> <<>>] : t \in Texts}
  /\ storage = MissingKey
  /\ dom = <<>>
  /\ status = "Ready"
  /\ theme = applyBackgroundForCondition("other")
  /\ sess = <<>>
  /\ lost = 0
  /\ clears = 0
  /\ sinceClear = FALSE
  /\ loaded = <<>>
  /\ op = NoOp
  /\ imgs = <<>>

\* normalizeMarkdown applied to the text, and then to its own result.
Normalize ==
  /\ Len(md.outs) < 2
  /\ md' = [md EXCEPT !.outs = Append(md.outs,
               normalizeMarkdown(IF md.outs = <<>> THEN md.input ELSE Last(md.outs)))]
  /\ UNCHANGED <<storage, dom, status, theme, sess, lost, clears, sinceClear, loaded, op, imgs>>

\* The text with CRLF line endings in place of LF.
RECURSIVE ToCRLF(_)
ToCRLF(s) ==
  IF s = <<>> THEN <<>>
  ELSE (IF s[1] = "NL" THEN <<"CR", "NL">> ELSE <<s[1]>>) \o ToCRLF(Tail(s))

\* normalizeMarkdown applied to the CRLF form of the text.
NormalizeCrlf ==
  /\ md.crlf = <<>>
  /\ md' = [md EXCEPT !.crlf = <<normalizeMarkdown(ToCRLF(md.input))>>]
  /\ UNCHANGED <<storage, dom, status, theme, sess, lost, clears, sinceClear, loaded, op, imgs>>

NextNormalize == Normalize \/ NormalizeCrlf

SpecNormalize == InitNormalize /\ [][NextNormalize]_vars

\* ------------------------------------------------------------ image attachments
NumImages == 2

\* The descriptors that reach createPlaceImage: line 158 asks for a thumbnail
\* or a url.
ImgMetas == {m \in [thumbnail : BOOLEAN, url : BOOLEAN] : m.thumbnail \/ m.url}

\* Lines 4-54: the placeholder and the img element.  pending: the browser is
\* loading img.src and will fire load or error; proxied, loads and errors count
\* the requests to the proxy endpoint and the events handled.
createPlaceImage(imgMeta) ==
  [thumbnail |-> imgMeta.thumbnail, url |-> imgMeta.url,
   src |-> IF imgMeta.thumbnail THEN "thumbnail" ELSE "url",
   triedProxy |-> FALSE, placeholder |-> "Loading...", replaced |-> FALSE,
   display |-> "none", pending |-> TRUE, proxied |-> 0, loads |-> 0, errors |-> 0]

\* Lines 30-33: the load listener.
ImgOnLoad(im) ==
  [im EXCEPT !.replaced = TRUE, !.display = "block", !.pending = FALSE,
             !.loads = im.loads + 1]

\* Lines 34-42: the error listener.
ImgOnError_noMark(im) ==
  IF im.url
  THEN [im EXCEPT !.src = "proxy", !.pending = TRUE,
                  !.proxied = im.proxied + 1, !.errors = im.errors + 1]
  ELSE [im EXCEPT !.placeholder = "Image not available", !.pending = FALSE,
                  !.errors = im.errors + 1]

ImgOnError(im) ==
  IF ~im.triedProxy /\ im.url
  THEN [im EXCEPT !.triedProxy = TRUE, !.src = "proxy", !.pending = TRUE,
                  !.proxied = im.proxied + 1, !.errors = im.errors + 1]
  ELSE [im EXCEPT !.placeholder = "Image not available", !.pending = FALSE,
                  !.errors = im.errors + 1]

InitImage ==
  /\ imgs \in {[i \in 1..NumImages |-> createPlaceImage(ms[i])] :
                ms \in [1..NumImages -> ImgMetas]}
  /\ storage = MissingKey
  /\ dom = <<>>
  /\ status = "Ready"
  /\ theme = applyBackgroundForCondition("other")
  /\ sess = <<>>
  /\ lost = 0
  /\ clears = 0
  /\ sinceClear = FALSE
  /\ loaded = <<>>
  /\ op = NoOp
  /\ md = NoText

\* The browser fires load on image i.
ImgLoad(i) ==
  /\ imgs[i].pending
  /\ imgs' = [imgs EXCEPT ![i] = ImgOnLoad(imgs[i])]
  /\ UNCHANGED <<storage, dom, status, theme, sess, lost, clears, sinceClear, loaded, op, md>>

\* The browser fires error on image i.
ImgError(i) ==
  /\ imgs[i].pending
  /\ imgs' = [imgs EXCEPT ![i] = ImgOnError(imgs[i])]
  /\ UNCHANGED <<storage, dom, status, theme, sess, lost, clears, sinceClear, loaded, op, md>>

NextImage ==
  \/ \E i \in DOMAIN imgs : ImgLoad(i)
  \/ \E i \in DOMAIN imgs : ImgError(i)

SpecImage == InitImage /\ [][NextImage]_vars

\* ------------------------------------------------------------ what a stream means
Hist == loadHistory(storage)

UserMsg == [role |-> "user", content |-> UserText, weather |-> "null"]
AssistantMsg(content, weather) ==
  [role |-> "assistant", content |-> content, weather |-> weather]

IsMetaEvent(ev) == ev \in {<<"META">>, <<"CMT", "META">>}
IsChunkEvent(ev) == ev \in {<<"CA">>, <<"CB">>}

\* The chunk texts that the events of a stream carry, in the order sent.
TextOfEvents(evs) ==
  Flatten([i \in DOMAIN evs |->
             Flatten([j \in DOMAIN evs[i] |-> ChunkText(evs[i][j])])])

\* The payloads that are JSON, in the order sent.
JsonLinesOf(evs) ==
  SelectSeq(Flatten(evs), LAMBDA l : l \in JsonAtoms)

WithoutBad(evs) == SelectSeq(evs, LAMBDA ev : ev # <<"BAD">>)

\* Only one send since the page was loaded, no clear, no lost save.
Undisturbed == Len(sess) = 1 /\ clears = 0 /\ lost = 0

\* ------------------------------------------------------------ claims
MetaChunksDoneShape(sc) ==
  /\ sc.cut = 0
  /\ Len(sc.evs) >= 2
  /\ IsMetaEvent(sc.evs[1])
  /\ sc.evs[Len(sc.evs)] = <<"DONE">>
  /\ \A i \in 2..(Len(sc.evs) - 1) : IsChunkEvent(sc.evs[i])

\* C1: a single session whose stream is one meta event, any number of chunk
\* events and done (no clear, no lost save, no other session) leaves exactly one
\* assistant message after the user message: its stored content is the chunk
\* texts concatenated in arrival order (nothing from meta), its weather is the
\* meta's weather, and its rendered element is finalized.
C1_MetaChunksDone ==
  \A s \in DOMAIN sess :
    (Undisturbed /\ MetaChunksDoneShape(sess[s].script) /\ sess[s].term = "done")
    => /\ Hist = loaded \o <<UserMsg,
                            AssistantMsg(TextOfEvents(sess[s].script.evs), WeatherOfMeta)>>
       /\ Len(dom) = Len(Hist)
       /\ Last(dom).role = "assistant"
       /\ Last(dom).streamFinal
       /\ Last(dom).text = TextOfEvents(sess[s].script.evs)
       /\ Last(dom).weather = WeatherOfMeta

C1_Witness ==
  /\ Undisturbed
  /\ sess[1].script.evs = << <<"CMT", "META">>, <<"CA">>, <<"CB">>, <<"DONE">> >>
  /\ sess[1].term = "done"
  /\ Last(Hist).content = <<"a", "b">>
  /\ Last(dom).streamFinal

ChunksOnlyShape(sc) ==
  /\ sc.cut = 0
  /\ sc.evs # <<>>
  /\ \A i \in DOMAIN sc.evs : IsChunkEvent(sc.evs[i])

\* C6: a session whose stream holds only chunk events (no meta), with no other
\* session and no clear, creates exactly one new assistant message, and its
\* stored content is the chunk texts concatenated in arrival order.
C6_ChunksOnly ==
  \A s \in DOMAIN sess :
    (Undisturbed /\ ChunksOnlyShape(sess[s].script) /\ sess[s].term = "eos")
    => /\ Hist = loaded \o <<UserMsg,
                            AssistantMsg(TextOfEvents(sess[s].script.evs), "null")>>
       /\ Len(dom) = Len(Hist)
       /\ Last(dom).text = TextOfEvents(sess[s].script.evs)

C6_Witness ==
  /\ Undisturbed
  /\ sess[1].script.evs = << <<"CB">>, <<"CA">> >>
  /\ sess[1].term = "eos"
  /\ Last(Hist).content = <<"b", "a">>
  /\ Len(Hist) = Len(loaded) + 2

SkipsBadShape(sc) ==
  /\ sc.cut = 0
  /\ \E i \in DOMAIN sc.evs : sc.evs[i] = <<"BAD">>
  /\ \A i \in DOMAIN sc.evs :
       \/ sc.evs[i] = <<"BAD">>
       \/ IsChunkEvent(sc.evs[i])
       \/ i = 1 /\ IsMetaEvent(sc.evs[i])
       \/ i = Len(sc.evs) /\ sc.evs[i] = <<"DONE">>

\* The assistant message that the events of a stream build: none when no meta
\* and no chunk is among them.
BuiltMessage(evs) ==
  IF \A i \in DOMAIN evs : ~IsMetaEvent(evs[i]) /\ ~IsChunkEvent(evs[i]) THEN <<>>
  ELSE <<AssistantMsg(TextOfEvents(evs),
                      IF IsMetaEvent(evs[1]) THEN WeatherOfMeta ELSE "null")>>

\* C9: a payload that fails to parse is skipped and does not abort the stream:
\* the session stays active after it, the events after it are dispatched, and
\* the stored content is what the stream without the malformed payloads yields.
C9_BadPayloadSkipped ==
  \A s \in DOMAIN sess :
    SkipsBadShape(sess[s].script)
    => /\ sess[s].term \notin {"threw", "error_event"}
       /\ (sess[s].pc = "reading" /\ sess[s].wire = <<>>)
            => sess[s].log = JsonLinesOf(sess[s].script.evs)
       /\ (Undisturbed /\ sess[s].term \in {"done", "eos"})
            => /\ sess[s].log = JsonLinesOf(sess[s].script.evs)
               /\ Hist = loaded \o <<UserMsg>>
                           \o BuiltMessage(WithoutBad(sess[s].script.evs))

C9_Witness ==
  /\ Undisturbed
  /\ sess[1].script.evs = << <<"CA">>, <<"BAD">>, <<"CB">> >>
  /\ sess[1].term = "eos"
  /\ sess[1].log = <<"CA", "CB">>
  /\ Last(Hist).content = <<"a", "b">>

ErrorTexts == {ServerErrorText, StreamFailedText, ErrorEventText}

\* The lines of a stream before its first error payload, as events.
RECURSIVE BeforeError(_)
BeforeError(evs) ==
  IF evs = <<>> THEN <<>>
  ELSE LET ev == Head(evs)
           hits == {j \in DOMAIN ev : ev[j] = "ERR"}
       IN IF hits = {} THEN <<ev>> \o BeforeError(Tail(evs))
          ELSE LET j == CHOOSE k \in hits : \A m \in hits : k <= m
               IN IF j = 1 THEN <<>> ELSE <<SubSeq(ev, 1, j - 1)>>

\* C7: when a payload with an error indicator is processed, exactly one error
\* message is appended, the status becomes Error, the theme is reset, and the
\* session ends: nothing that follows the payload (in its event, in the buffer,
\* in later bytes) is dispatched or changes the history or the conversation.
C7_ErrorTerminates ==
  \A s \in DOMAIN sess :
    /\ \A i \in 1..(Len(sess[s].log) - 1) : sess[s].log[i] # "ERR"
    /\ (sess[s].log # <<>> /\ Last(sess[s].log) = "ERR")
         => sess[s].term = "error_event" /\ sess[s].errs = 1
    /\ (sess[s].term = "error_event" /\ Len(sess) = 1 /\ clears = 0)
         => /\ status = "Error"
            /\ theme = "other"
            /\ Last(sess[s].log) = "ERR"
            /\ Last(dom).made = "error" /\ Last(dom).text = ErrorEventText
            /\ lost = 0 =>
                 /\ Hist = loaded \o <<UserMsg>>
                             \o BuiltMessage(BeforeError(sess[s].script.evs))
                             \o <<AssistantMsg(ErrorEventText, "null")>>
                 /\ Len(dom) = Len(Hist)

C7_Witness ==
  /\ Len(sess) = 1
  /\ sess[1].script.evs = << <<"CA">>, <<"ERR", "CB">>, <<"CB">> >>
  /\ sess[1].term = "error_event"
  /\ sess[1].unread
  /\ sess[1].log = <<"CA", "ERR">>
  /\ Last(Hist).content = ErrorEventText

\* C8: when the request returns a non-success status, the session ends without
\* reading the body: exactly one error message is appended after the user
\* message, the status is Error, and the session leaves no assistant element
\* in the streaming state.
C8_NotOkTerminates ==
  \A s \in DOMAIN sess :
    sess[s].term = "http"
    => /\ sess[s].pc = "ended"
       /\ sess[s].log = <<>>
       /\ sess[s].errs = 1
       /\ \A i \in DOMAIN dom : dom[i].owner = s => ~dom[i].streaming
       /\ (Len(sess) = 1 /\ clears = 0)
            => /\ status = "Error"
               /\ Len(dom) = Len(loaded) + 2
               /\ dom[Len(dom) - 1].made = "user"
               /\ Last(dom).role = "assistant"
               /\ Last(dom).text = ServerErrorText
               /\ lost = 0 => Hist = loaded \o <<UserMsg,
                                              AssistantMsg(ServerErrorText, "null")>>

C8_Witness ==
  /\ Len(sess) = 1
  /\ sess[1].term = "http"
  /\ sess[1].unread
  /\ Last(Hist).content = ServerErrorText
  /\ status = "Error"

\* C2: after a clear during an active session, the late events of that session
\* are no-ops on the History Store: until a new send the persisted history holds
\* no assistant message that carries chunk text, and no element is rendered for
\* one.
C2_LateEventsHarmless ==
  sinceClear
  => /\ \A i \in DOMAIN Hist :
          ~(Hist[i].role = "assistant" /\ Hist[i].content # <<>>
            /\ Hist[i].content \notin ErrorTexts)
     /\ \A i \in DOMAIN dom : ~(dom[i].made = "stream" /\ dom[i].applied # <<>>)

\* C3: at most one session is active in every reachable state.
C3_AtMostOneActive ==
  Cardinality({s \in DOMAIN sess : Active(s)}) <= 1

StreamedBy(s) == {i \in DOMAIN dom : dom[i].owner = s /\ dom[i].made = "stream"}

\* C4: when the stream ends without done, the session ends and no assistant
\* message that it created remains un-finalized.
C4_EndOfStreamFinalizes ==
  \A s \in DOMAIN sess :
    sess[s].term = "eos" => \A i \in StreamedBy(s) : dom[i].streamFinal

\* The same for the sessions that no other session overlapped.
C4_WhenAlone ==
  \A s \in DOMAIN sess :
    (sess[s].term = "eos" /\ sess[s].alone) => \A i \in StreamedBy(s) : dom[i].streamFinal

\* C5: when the transport fails in the middle of a stream, the session ends as
\* at the end of the stream: the message that was being streamed is finalized,
\* and an error message is shown.
C5_TransportFailureFinalizes ==
  \A s \in DOMAIN sess :
    sess[s].term = "failed"
    => /\ sess[s].errs = 1
       /\ \A i \in StreamedBy(s) : dom[i].streamFinal

\* The stored message of a finalized element: the slot that its history index
\* addresses, when that slot holds the assistant content applied to it.
OwnSlot(i) ==
  /\ HasSlot(Hist, dom[i].historyIndex)
  /\ Hist[dom[i].historyIndex[1] + 1].role = "assistant"
  /\ Hist[dom[i].historyIndex[1] + 1].content = dom[i].applied

FinalizedKept ==
  \A i \in DOMAIN dom :
    (dom[i].streamFinal /\ dom[i].made = "stream" /\ OwnSlot(i) /\ clears' = clears)
    => LET k == dom[i].historyIndex[1] + 1
       IN k \in DOMAIN loadHistory(storage')
          /\ loadHistory(storage')[k].content = Hist[k].content

\* C10: once an assistant message is finalized, no later stream event of any
\* session changes its stored content.
C10_FinalizedImmutable == [][FinalizedKept]_vars

\* The same for the steps up to which no save was lost.
C10_WhenNoSaveLost == [][lost' = 0 => FinalizedKept]_vars

\* What one call of finalizeAssistantStream does to the conversation.
FinalizeOnce == finalizeAssistantStream(dom)

FinalizeKeepsContent ==
  /\ finalizeAssistantStream(FinalizeOnce) = FinalizeOnce
  /\ Len(FinalizeOnce) = Len(dom)
  /\ \A i \in DOMAIN dom :
       /\ [FinalizeOnce[i] EXCEPT !.streamFinal = dom[i].streamFinal] = dom[i]
       /\ i < Len(dom) => FinalizeOnce[i] = dom[i]
  /\ (dom = <<>> \/ Last(dom).role = "user") => FinalizeOnce = dom
  /\ (dom # <<>> /\ Last(dom).role = "assistant") => Last(FinalizeOnce).streamFinal

\* A step in which a stream ends without done: line 307 is the only write.
EndOfStreamStep ==
  \E s \in DOMAIN sess : sess[s].term # "eos" /\ sess'[s].term = "eos"

\* C11: finalizeAssistantStream is idempotent and keeps content: in every
\* reachable conversation a second call changes nothing after the first, a call
\* changes nothing but the finalized mark of the last element, and only when
\* that is an assistant element; the step that calls it at the end of a stream
\* leaves the persisted history as it was.
C11_FinalizeIdempotent ==
  /\ []FinalizeKeepsContent
  /\ [][EndOfStreamStep => storage' = storage /\ dom' = FinalizeOnce]_vars

C11_Witness ==
  /\ Len(sess) = 1
  /\ sess[1].term = "eos"
  /\ Last(dom).made = "stream"
  /\ Last(dom).streamFinal
  /\ Last(dom).text = <<"a", "b">>
  /\ Last(Hist).content = <<"a", "b">>

\* The meta payloads that a session has dispatched.
MetasOf(log) == Len(SelectSeq(log, LAMBDA p : p = "META"))

C13_LostSaveHarmless ==
  /\ \A i \in DOMAIN Hist : Hist[i].role = "user" => Hist[i].content = UserText
  /\ (clears = 0 /\ Len(Hist) >= Len(loaded)) => SubSeq(Hist, 1, Len(loaded)) = loaded

\* The same for the runs in which no save was lost.
C13_WhenNoSaveLost == lost = 0 => C13_LostSaveHarmless

\* C14: loadHistory never raises and returns a sequence: the empty sequence
\* when the key is missing, when the stored text does not parse and when the
\* parsed value is no array, and the stored array otherwise; the page load
\* gets that value.
C14_LoadNeverRaises ==
  /\ ~loadHistoryResult(storage).raised
  /\ loadHistory(storage) \in Seq(StoreMessages)
  /\ loadHistory(storage) = (IF storage.kind = "array" THEN storage.arr ELSE <<>>)
  /\ op.name = "load"
       => /\ ~loadHistoryResult(op.before).raised
          /\ loaded = (IF op.before.kind = "array" THEN op.before.arr ELSE <<>>)

C14_Witness ==
  /\ op.name = "load"
  /\ op.before = CorruptText
  /\ loaded = <<>>
  /\ dom = <<>>

C15_Idempotent == Len(md.outs) = 2 => md.outs[2] = md.outs[1]

\* A text without CR and its CRLF form normalize to the same text.
C15_CrlfSameAsLf ==
  (md.crlf # <<>> /\ md.outs # <<>> /\ \A i \in DOMAIN md.input : md.input[i] # "CR")
  => md.crlf[1] = md.outs[1]

\* C15: normalizeMarkdown is idempotent for every text of letters, digits,
\* spaces, CR and LF, and a text with CRLF line endings normalizes to what the
\* same text with LF line endings normalizes to.
C15_NormalizeIdempotent == C15_Idempotent /\ C15_CrlfSameAsLf

\* C17: a load failure of an image starts at most one retry through the proxy
\* endpoint, and only when the descriptor has a url; when the retry fails too
\* (or no retry is possible) the placeholder shows the unavailable text for
\* good and nothing is loading any more; a load that succeeds, at the first
\* attempt or at the retry, puts the image in the place of the placeholder.
C17_OneProxyRetry ==
  \A i \in DOMAIN imgs :
    LET im == imgs[i]
    IN /\ im.proxied <= 1
       /\ im.proxied = 1 => im.url /\ im.errors >= 1
       /\ (im.errors >= 1 /\ im.url) => im.proxied = 1
       /\ (im.src = "proxy") = (im.proxied = 1)
       /\ (im.errors = 2 \/ (im.errors = 1 /\ ~im.url))
            => im.placeholder = "Image not available" /\ ~im.pending /\ ~im.replaced
       /\ im.placeholder = "Image not available" => ~im.pending /\ im.loads = 0
       /\ im.errors <= 2
       /\ im.loads >= 1 => im.replaced /\ im.display = "block" /\ ~im.pending

C17_Witness ==
  /\ imgs[1].errors = 2 /\ imgs[1].proxied = 1
  /\ imgs[1].placeholder = "Image not available"
  /\ imgs[2].errors = 1 /\ imgs[2].loads = 1 /\ imgs[2].src = "proxy"
  /\ imgs[2].replaced

\* C18: in sendOnce a record with an error descriptor and an answer gives the
\* answer as a normal assistant message and the status Done; and on every path
\* of sendOnce exactly one assistant message is appended after the user
\* message, in the history and in the conversation.
C18_SendOnceOneMessage ==
  \A s \in DOMAIN sess :
    (sess[s].term = "once" /\ Undisturbed)
    => /\ Len(Hist) = Len(loaded) + 2
       /\ SubSeq(Hist, 1, Len(loaded)) = loaded
       /\ Hist[Len(loaded) + 1] = UserMsg
       /\ Last(Hist).role = "assistant"
       /\ Len(dom) = Len(Hist)
       /\ dom[Len(dom) - 1].made = "user"
       /\ Last(dom).role = "assistant" /\ Last(dom).text = Last(Hist).content
       /\ sess[s].resp.kind = "error_answer"
            => /\ Last(Hist) = AssistantMsg(AnswerText, sess[s].resp.weather)
               /\ Last(dom).made = "answer"
               /\ sess[s].errs = 0
               /\ status = "Done"

C18_Witness ==
  /\ Undisturbed
  /\ sess[1].term = "once"
  /\ sess[1].resp = [kind |-> "error_answer", weather |-> WeatherOfMeta]
  /\ Last(Hist) = AssistantMsg(AnswerText, WeatherOfMeta)
  /\ status = "Done"

\* The text of its stream that a session has pulled so far.
Received(s) ==
  SubSeq(ScriptWire(sess[s].script), 1,
         Len(ScriptWire(sess[s].script)) - Len(sess[s].wire))

\* The number of events of evs that are complete within the first n symbols.
CompleteEvents(evs, n) ==
  CHOOSE k \in 0..Len(evs) :
    /\ Len(StreamWire(SubSeq(evs, 1, k))) <= n
    /\ \A j \in 0..Len(evs) : Len(StreamWire(SubSeq(evs, 1, j))) <= n => j <= k

\* C19: within a session every complete event is taken off the buffer and
\* dispatched exactly once and in arrival order, and text that no blank line
\* has ended yet stays in the buffer undispatched: while the session reads,
\* and when its stream has ended, the payloads dispatched are those of the
\* events received completely, in order, and the buffer is the text received
\* after them.
C19_EventsOnceInOrder ==
  \A s \in DOMAIN sess :
    (sess[s].pc = "reading" \/ sess[s].term = "eos")
    => LET evs == sess[s].script.evs
           got == IF sess[s].pc = "reading" THEN Received(s)
                  ELSE ScriptWire(sess[s].script)
           k == CompleteEvents(evs, Len(got))
           used == Len(StreamWire(SubSeq(evs, 1, k)))
       IN /\ sess[s].log = JsonLinesOf(SubSeq(evs, 1, k))
          /\ sess[s].pc = "reading" => sess[s].buffer = SubSeq(got, used + 1, Len(got))

C19_Witness ==
  /\ Len(sess) = 1
  /\ sess[1].pc = "reading"
  /\ sess[1].script.evs = << <<"CA">>, <<"CB">>, <<"CA">> >>
  /\ sess[1].log = <<"CA", "CB">>
  /\ sess[1].buffer = <<"DATA", "CA", "NL">>

\* A step in which session s dispatches one chunk, and no more, while the last
\* element is an assistant element that is not finalized and whose history
\* index addresses no slot of the stored history.
NoSlotChunkStep(s) ==
  /\ sess[s].pc = "reading"
  /\ ~NeedsNewMessage(dom)
  /\ ~HasSlot(Hist, Last(dom).historyIndex)
  /\ Len(sess'[s].log) = Len(sess[s].log) + 1
  /\ Last(sess'[s].log) \in {"CA", "CB"}

\* C20: a chunk applied to a rendered target whose history index has no slot
\* in the loaded history (not a number, or outside the array) leaves the
\* persisted history exactly as it was and raises no exception: the session
\* goes on and no element is added.
C20_NoSlotNoOp ==
  [][\A s \in DOMAIN sess :
       NoSlotChunkStep(s)
       => /\ storage' = storage
          /\ lost' = lost
          /\ sess'[s].term \notin {"threw", "failed"}
          /\ Len(dom') = Len(dom)
          /\ Last(dom').applied = Last(dom).applied \o ChunkText(Last(sess'[s].log))]_vars

C20_Witness ==
  \E i \in DOMAIN dom :
    /\ dom[i].made = "error"
    /\ dom[i].historyIndex = <<>>
    /\ dom[i].applied # <<>>

\* The state after the send of a session that starts from the loaded history.
AfterSend ==
  pushUserMessage([storage |-> StoredArray(loaded),
                   dom |-> renderHistory(StoredArray(loaded)),
                   status |-> "Processing",
                   theme |-> applyBackgroundForCondition("other"),
                   lost |-> 0, log |-> <<>>, errs |-> 0],
                  UserText, FALSE, 1)

\* What a stream yields when its whole text arrives in one read and the
\* stream then ends.
InOneRead(sc) ==
  LET r == ProcessBuffer(AfterSend, ScriptWire(sc), FALSE, 1)
  IN CASE r.ctl = "throw" -> CatchHandler(r.c, FALSE, 1)
       [] r.ctl = "next" -> [r.c EXCEPT !.dom = finalizeAssistantStream(r.c.dom),
                                        !.status = "Done"]
       [] OTHER -> r.c

\* C21: the history that a session leaves depends only on the text of its
\* stream, not on how the transport split it into reads: with one send, no
\* clear and no lost save, a session that ended by done, by an error payload,
\* by an exception of a payload or by the end of the stream leaves the stored
\* history, the conversation with its finalized marks and the status that the
\* same text leaves when it arrives in a single read.
C21_SplitIndependent ==
  \A s \in DOMAIN sess :
    (Undisturbed /\ sess[s].term \in {"done", "eos", "error_event", "threw"})
    => /\ Hist = loadHistory(InOneRead(sess[s].script).storage)
       /\ dom = InOneRead(sess[s].script).dom
       /\ status = InOneRead(sess[s].script).status

C21_Witness ==
  /\ Undisturbed
  /\ sess[1].term = "done"
  /\ sess[1].torn
  /\ sess[1].script.evs = << <<"CMT", "META">>, <<"CA">>, <<"CB">>, <<"DONE">> >>
  /\ Last(Hist).content = <<"a", "b">>
  /\ Last(dom).streamFinal

\* The history after the step.
HistAfter == loadHistory(storage')

\* In a step without a clear every stored user message keeps its role and
\* its content.
UserMessagesKept ==
  clears' = clears
  => \A i \in DOMAIN Hist :
       (Hist[i].role = "user" /\ i \in DOMAIN HistAfter)
       => HistAfter[i].role = "user" /\ HistAfter[i].content = Hist[i].content

\* C22: no stream event of any session changes the role or the content of a
\* user message in the persisted history, in any interleaving of sends, stream
\* events and clears.
C22_UserMessagesUntouched == [][UserMessagesKept]_vars

\* The same for the steps up to which no save was lost.
C22_WhenNoSaveLost == [][lost' = 0 => UserMessagesKept]_vars

\* C23: apart from clear the persisted history is append-only in its
\* structure: in every step of a send or of a stream event the history does
\* not get shorter and every message keeps its index and its role.
C23_AppendOnly ==
  [][clears' = clears
     => /\ Len(HistAfter) >= Len(Hist)
        /\ \A i \in DOMAIN Hist : HistAfter[i].role = Hist[i].role]_vars

C23_Witness ==
  /\ Len(sess) = 2
  /\ clears = 1
  /\ lost = 1
  /\ Len(Hist) = 3
  /\ Hist[1].role = "assistant" /\ Hist[2].role = "user" /\ Hist[3].role = "assistant"

\* C24: in every reachable state an assistant element that is marked
\* streaming and not finalized carries a history index that addresses an
\* assistant message of the persisted history, and the stored content of that
\* message is the chunk texts applied to the element, concatenated.
C24_StreamingElementHasSlot ==
  \A i \in DOMAIN dom :
    (dom[i].role = "assistant" /\ dom[i].streaming /\ ~dom[i].streamFinal) => OwnSlot(i)

\* The same for the states up to which no save was lost.
C24_WhenNoSaveLost == lost = 0 => C24_StreamingElementHasSlot

====
